---- MODULE Spec2Model ----
(***************************************************************************)
(* A model of BufferedRaylib's buffered input layer                        *)
(* (src/src/BufferedInput.hpp, src/src/BufferedInput.cpp): physical        *)
(* controls and their ordering, control sets, the four action kinds with   *)
(* their Pump methods, and the registry's PumpMessages.  The raylib        *)
(* backend (IsKeyDown, GetMouseWheelMove, IsWindowFocused, ...) is the     *)
(* environment: its readings are the variable backend, changed by the      *)
(* event actions.                                                          *)
(***************************************************************************)
EXTENDS Integers, Sequences, FiniteSets, TLC

VARIABLES
    actions,    \* BufferedInput::actions: name -> action (std::map)
    built,      \* name -> the factory call that constructed the action
    backend,    \* the readings the raylib backend returns right now
    op,         \* the last step: "init", "event", "pump" (ran) or "skip" (gated)
    before,     \* actions as they were when the last PumpMessages call began
    pumped,     \* names whose Pump the last PumpMessages call invoked, in order
    calls,      \* callback invocations made by the last PumpMessages call, in order
    flag,       \* the whileUnfocused argument of the last PumpMessages call
    frame,      \* number of PumpMessages calls that ran an accumulating action
    sampled,    \* name -> the state the action's Pump computed when it last ran
    delivered   \* name -> the state argument of its latest emission, <<>> if none

vars == <<actions, built, backend, op, before, pumped, calls, flag, frame, sampled, delivered>>

----------------------------------------------------------------------------
(* Bounds of the model *)

\* key, mouse button, gamepad button, gamepad index and axis codes are 0..MaxCode
MaxCode == 1
\* a control set is built from an initializer list of at most MaxButtons controls
MaxButtons == 2
\* at most MaxFrames PumpMessages calls accumulate into an Axis or Vector action
MaxFrames == 4

Codes == 0 .. MaxCode

----------------------------------------------------------------------------
(* Small helpers *)

Abs(x) == IF x < 0 THEN -x ELSE x

Max(x, y) == IF x < y THEN y ELSE x

RECURSIVE Pow2(_)
Pow2(n) == IF n = 0 THEN 1 ELSE 2 * Pow2(n - 1)

\* bool -> integer conversion of C++ (state += IsPressed(button))
BoolToInt(b) == IF b THEN 1 ELSE 0

\* uint8_t arithmetic
U8(x) == x % 256

----------------------------------------------------------------------------
(* Button: a physical control.  The union of Button (hpp 82-89) overlays   *)
(* keyboard, mouse and gamepad.id in its first word (w0); gamepad.button   *)
(* is its second word (w1).                                                *)

\* enum class Button::Type, as its underlying integer
ButtonTypeOrd(t) ==
    CASE t = "Invalid" -> 0
      [] t = "Keyboard" -> 1
      [] t = "Mouse" -> 2
      [] t = "Gamepad" -> 3

\* Button::key: { Type::Keyboard, key }
Button_key(key) == [type |-> "Keyboard", w0 |-> key, w1 |-> 0]

\* Button::btn / Button::mouse_button: { Type::Mouse, {.mouse = button} }
Button_btn(button) == [type |-> "Mouse", w0 |-> button, w1 |-> 0]

\* Button::pad / joy / gamepad_button: { Type::Keyboard, {.gamepad = {gamepad, button}} }
Button_pad(button, gamepad) == [type |-> "Keyboard", w0 |-> gamepad, w1 |-> button]

\* Button::operator<
Button_Less(a, b) ==
    IF a.type # b.type THEN ButtonTypeOrd(a.type) < ButtonTypeOrd(b.type)
    ELSE IF a.type = "Gamepad" /\ a.w0 = b.w0 THEN a.w1 < b.w1
    ELSE a.w0 < b.w0

\* equivalence under std::less, the test std::set uses to reject a duplicate
Button_Equiv(a, b) == ~Button_Less(a, b) /\ ~Button_Less(b, a)

\* std::set<Button>::insert: the set is the sequence of its members in order
ButtonSet_insert(s, b) ==
    IF \E i \in 1 .. Len(s) : Button_Equiv(s[i], b) THEN s
    ELSE LET k == Cardinality({i \in 1 .. Len(s) : Button_Less(s[i], b)})
         IN  SubSeq(s, 1, k) \o <<b>> \o SubSeq(s, k + 1, Len(s))

\* std::set<Button> built from an initializer list
RECURSIVE ButtonSet_of(_)
ButtonSet_of(list) ==
    IF list = <<>> THEN <<>>
    ELSE ButtonSet_insert(ButtonSet_of(SubSeq(list, 1, Len(list) - 1)), list[Len(list)])

\* Button::IsPressed
Button_IsPressed(button, be) ==
    CASE button.type = "Keyboard" -> button.w0 \in be.keyDown
      [] button.type = "Mouse" -> button.w0 \in be.mouseDown
      [] button.type = "Gamepad" -> <<button.w0, button.w1>> \in be.padDown
      [] OTHER -> FALSE

\* Button::IsSetPressed
RECURSIVE Button_IsSetPressed(_, _)
Button_IsSetPressed(buttons, be) ==
    IF buttons = <<>> THEN 0
    ELSE U8(Button_IsSetPressed(Tail(buttons), be) + BoolToInt(Button_IsPressed(Head(buttons), be)))

----------------------------------------------------------------------------
(* float: the values of the model are the integer-valued floats.  A sum or *)
(* difference of two of them is rounded to the nearest float, ties to      *)
(* even, as IEEE-754 single precision does.                                *)

\* significand bits of float (the type of AxisAction::last_state, Vector2::x)
FLT_MANT_DIG == 24

\* spacing of the floats around the integer x: 2^e, 2^(23+e) <= |x| < 2^(24+e)
RECURSIVE FloatSpacing(_)
FloatSpacing(x) ==
    IF Abs(x) < Pow2(FLT_MANT_DIG) THEN 1 ELSE 2 * FloatSpacing(Abs(x) \div 2)

\* the float nearest to the integer x (round to nearest, ties to even)
FloatRound(x) ==
    LET q == FloatSpacing(x)
        lo == (Abs(x) \div q) * q
        r == Abs(x) - lo
        near == IF 2 * r < q THEN lo
                ELSE IF 2 * r > q THEN lo + q
                ELSE IF (lo \div q) % 2 = 0 THEN lo ELSE lo + q
    IN  IF x < 0 THEN -near ELSE near

\* float operator+ and operator-
FloatAdd(a, b) == FloatRound(a + b)

FloatSub(a, b) == FloatRound(a - b)

\* 1 / EPSILON of raymath.h (EPSILON is 0.000001f)
EPSILON_INV == 1000000

\* raymath's FloatEquals: fabsf(a - b) <= EPSILON*fmaxf(1, fmaxf(fabsf(a), fabsf(b)));
\* the difference d of two integer-valued floats is an integer, and d <= m/10^6
\* exactly when d <= m \div 10^6
FloatEquals(a, b) == Abs(FloatSub(a, b)) <= Max(1, Max(Abs(a), Abs(b))) \div EPSILON_INV

\* raymath's Vector2Equals and Vector2Subtract
Vector2Equals(p, q) == FloatEquals(p.x, q.x) /\ FloatEquals(p.y, q.y)

Vector2Subtract(p, q) == [x |-> FloatSub(p.x, q.x), y |-> FloatSub(p.y, q.y)]

Vector2Zero == [x |-> 0, y |-> 0]

----------------------------------------------------------------------------
(* Delegate: the slots connected to an action's signal, in connection      *)
(* order.  An emission records the arguments, the slots it invoked, and    *)
(* the last_state the action holds while the slots run.                    *)

\* variant of set_callback: connect without disconnect_all_slots (operator+=)
set_callbackConnects(a, f) == [a EXCEPT !.callback = Append(@, f)]

\* Delegate::set and the actions' set_callback: disconnect_all_slots, connect
set_callback(a, f) == [a EXCEPT !.callback = <<f>>]

\* callback(name, state, third): one emission of the action's signal
Emit(a, name, state, third) ==
    [name |-> name, state |-> state, third |-> third, slots |-> a.callback,
     seen |-> a.last_state]

----------------------------------------------------------------------------
(* ButtonAction *)

\* ButtonAction::set: {Action::Type::Button, buttons, combo}, last_state = 0
ButtonAction_set(buttons, combo) ==
    [type |-> "Button", buttons |-> buttons, combo |-> combo,
     last_state |-> 0, callback |-> <<>>]

\* ButtonAction::button: the set {button}
ButtonAction_button(button, combo) == ButtonAction_set(ButtonSet_of(<<button>>), combo)

\* ButtonAction::key, ::btn / ::mouse_button, ::pad / ::joy / ::gamepad_button
ButtonAction_key(key, combo) ==
    ButtonAction_button([type |-> "Keyboard", w0 |-> key, w1 |-> 0], combo)

ButtonAction_btn(b, combo) ==
    ButtonAction_button([type |-> "Mouse", w0 |-> b, w1 |-> 0], combo)

ButtonAction_pad(b, gamepad, combo) ==
    ButtonAction_button([type |-> "Keyboard", w0 |-> gamepad, w1 |-> b], combo)

\* variant of ButtonAction_changed: the test dropped
ButtonAction_changedAlways(state, last_state) == TRUE

\* the test of ButtonAction::Pump that guards dispatch and store (cpp 91)
ButtonAction_changed(state, last_state) == state # last_state

\* variant of ButtonAction_crossed: the count leaving or reaching zero
ButtonAction_crossedZero(a, state) == (state = 0) # (a.last_state = 0)

\* variant of ButtonAction_crossed: only the transition into all-pressed
ButtonAction_crossedOnPress(a, state) ==
    state = Len(a.buttons) /\ a.last_state # Len(a.buttons)

\* the combo test of ButtonAction::Pump (cpp 93): comboState != lastComboState
ButtonAction_crossed(a, state) ==
    (state = Len(a.buttons)) # (a.last_state = Len(a.buttons))

\* variant of ButtonAction_comboCall: the raw count passed as the state
ButtonAction_comboCallRawCount(a, name, state) ==
    Emit(a, name, state, a.last_state = Len(a.buttons))

\* callback(name, comboState, lastComboState) (cpp 94): bool comboState becomes
\* the uint8_t state 0 or 1
ButtonAction_comboCall(a, name, state) ==
    Emit(a, name, BoolToInt(state = Len(a.buttons)), a.last_state = Len(a.buttons))

\* variant of ButtonAction_call: wasPressed tells whether all were pressed
ButtonAction_callAllPressed(a, name, state) ==
    Emit(a, name, state, a.last_state = Len(a.buttons))

\* callback(name, state, last_state) (cpp 95): uint8_t last_state becomes the
\* bool wasPressed
ButtonAction_call(a, name, state) == Emit(a, name, state, a.last_state # 0)

\* variant of ButtonAction_Pump: the count stored only when the callback fired
ButtonAction_PumpStoresOnDispatch(a, name, be) ==
    LET state == Button_IsSetPressed(a.buttons, be)
        fires == ButtonAction_changed(state, a.last_state)
                     /\ (a.combo => ButtonAction_crossed(a, state))
    IN  IF fires
        THEN [action |-> [a EXCEPT !.last_state = state],
              calls |-> IF a.combo THEN <<ButtonAction_comboCall(a, name, state)>>
                        ELSE <<ButtonAction_call(a, name, state)>>]
        ELSE [action |-> a, calls |-> <<>>]

\* variant of ButtonAction_Pump: the count added to the stored one
ButtonAction_PumpAdds(a, name, be) ==
    LET state == U8(a.last_state + Button_IsSetPressed(a.buttons, be))
    IN  IF ButtonAction_changed(state, a.last_state)
        THEN [action |-> [a EXCEPT !.last_state = state],
              calls |-> <<ButtonAction_call(a, name, state)>>]
        ELSE [action |-> a, calls |-> <<>>]

\* ButtonAction::Pump: the action afterwards and the emissions made
ButtonAction_Pump(a, name, be) ==
    LET state == Button_IsSetPressed(a.buttons, be)
    IN  IF ButtonAction_changed(state, a.last_state)
        THEN [action |-> [a EXCEPT !.last_state = state],
              calls |-> IF a.combo
                        THEN IF ButtonAction_crossed(a, state)
                             THEN <<ButtonAction_comboCall(a, name, state)>>
                             ELSE <<>>
                        ELSE <<ButtonAction_call(a, name, state)>>]
        ELSE [action |-> a, calls |-> <<>>]

----------------------------------------------------------------------------
(* AxisAction *)

\* AxisAction::gamepad_axis
AxisAction_gamepad_axis(axis, gamepad) ==
    [type |-> "Axis", axis |-> "MouseWheel",
     gamepad |-> [id |-> gamepad, axis |-> axis],
     last_state |-> 0, callback |-> <<>>]

\* AxisAction::mouse_wheel
AxisAction_mouse_wheel ==
    [type |-> "Axis", axis |-> "MouseWheel",
     gamepad |-> [id |-> 0, axis |-> 0],
     last_state |-> 0, callback |-> <<>>]

\* the movement AxisAction::Pump reads this frame (the switch, cpp 108-118)
AxisAction_movement(a, be) ==
    CASE a.axis = "Gamepad" -> be.axisMovement[<<a.gamepad.id, a.gamepad.axis>>]
      [] a.axis = "MouseWheel" -> be.wheelMove
      [] OTHER -> 0

\* variant of AxisAction_accumulate: the movement assigned, not added
AxisAction_accumulateReplaces(last_state, movement) ==
    IF movement # 0 THEN movement ELSE last_state

\* if(movement != 0) state += movement (cpp 111, 115)
AxisAction_accumulate(last_state, movement) ==
    IF movement # 0 THEN FloatAdd(last_state, movement) ELSE last_state

\* variant of AxisAction_Pump: last_state assigned before the callback is called
AxisAction_PumpStoresFirst(a, name, be) ==
    LET state == AxisAction_accumulate(a.last_state, AxisAction_movement(a, be))
        stored == [a EXCEPT !.last_state = state]
    IN  IF state # a.last_state
        THEN [action |-> stored,
              calls |-> <<Emit(stored, name, state, FloatSub(state, a.last_state))>>]
        ELSE [action |-> a, calls |-> <<>>]

\* AxisAction::Pump
AxisAction_Pump(a, name, be) ==
    LET state == AxisAction_accumulate(a.last_state, AxisAction_movement(a, be))
    IN  IF state # a.last_state
        THEN [action |-> [a EXCEPT !.last_state = state],
              calls |-> <<Emit(a, name, state, FloatSub(state, a.last_state))>>]
        ELSE [action |-> a, calls |-> <<>>]

----------------------------------------------------------------------------
(* VectorAction *)

\* VectorAction::mouse_wheel, ::mouse_position, ::gamepad_axes
VectorAction_mouse_wheel ==
    [type |-> "Vector", vector |-> "MouseWheel",
     gamepad |-> [horizontal |-> [id |-> 0, axis |-> 0], vertical |-> [id |-> 0, axis |-> 0]],
     last_state |-> Vector2Zero, callback |-> <<>>]

VectorAction_mouse_position ==
    [type |-> "Vector", vector |-> "MousePosition",
     gamepad |-> [horizontal |-> [id |-> 0, axis |-> 0], vertical |-> [id |-> 0, axis |-> 0]],
     last_state |-> Vector2Zero, callback |-> <<>>]

VectorAction_gamepad_axes(horizontal, vertical, gamepadHorizontal, gamepadVertical) ==
    [type |-> "Vector", vector |-> "GamepadAxes",
     gamepad |-> [horizontal |-> [id |-> gamepadHorizontal, axis |-> horizontal],
                  vertical |-> [id |-> IF gamepadVertical < 0 THEN gamepadHorizontal
                                       ELSE gamepadVertical,
                                axis |-> vertical]],
     last_state |-> Vector2Zero, callback |-> <<>>]

\* variant of VectorAction_state: the wheel vector added to the running state
VectorAction_stateWheelAdds(a, be) ==
    CASE a.vector = "MouseWheel" ->
            [x |-> FloatAdd(a.last_state.x, be.wheelMoveV.x),
             y |-> FloatAdd(a.last_state.y, be.wheelMoveV.y)]
      [] a.vector = "MousePosition" -> be.mousePosition
      [] a.vector = "GamepadAxes" ->
            [x |-> FloatAdd(a.last_state.x,
                            be.axisMovement[<<a.gamepad.horizontal.id, a.gamepad.horizontal.axis>>]),
             y |-> FloatAdd(a.last_state.y,
                            be.axisMovement[<<a.gamepad.vertical.id, a.gamepad.vertical.axis>>])]
      [] OTHER -> a.last_state

\* the state VectorAction::Pump computes this frame (the switch, cpp 132-145)
VectorAction_state(a, be) ==
    CASE a.vector = "MouseWheel" -> be.wheelMoveV
      [] a.vector = "MousePosition" -> be.mousePosition
      [] a.vector = "GamepadAxes" ->
            [x |-> FloatAdd(a.last_state.x,
                            be.axisMovement[<<a.gamepad.horizontal.id, a.gamepad.horizontal.axis>>]),
             y |-> FloatAdd(a.last_state.y,
                            be.axisMovement[<<a.gamepad.vertical.id, a.gamepad.vertical.axis>>])]
      [] OTHER -> a.last_state

\* variant of VectorAction_Pump: the computed state stored on every pump
VectorAction_PumpStoresAlways(a, name, be) ==
    LET state == VectorAction_state(a, be)
    IN  [action |-> [a EXCEPT !.last_state = state],
         calls |-> IF ~Vector2Equals(state, a.last_state)
                   THEN <<Emit(a, name, state, Vector2Subtract(state, a.last_state))>>
                   ELSE <<>>]

\* VectorAction::Pump
VectorAction_Pump(a, name, be) ==
    LET state == VectorAction_state(a, be)
    IN  IF ~Vector2Equals(state, a.last_state)
        THEN [action |-> [a EXCEPT !.last_state = state],
              calls |-> <<Emit(a, name, state, Vector2Subtract(state, a.last_state))>>]
        ELSE [action |-> a, calls |-> <<>>]

----------------------------------------------------------------------------
(* MultiButtonsAction *)

\* ButtonData<4>::Direction, as 1-based indices into directions
Up == 1
Down == 2
Left == 3
Right == 4

\* MultiButtonsAction::quad: directions { up, down, left, right }
MultiButtonsAction_quad(up, down, left, right, normalized) ==
    [type |-> "MultiButton",
     quadButtons |-> [directions |-> <<up, down, left, right>>,
                      lasts |-> <<0, 0, 0, 0>>,
                      normalize |-> normalized],
     last_state |-> Vector2Zero, callback |-> <<>>]

\* MultiButtonsAction::wasd(up, left, down, right, normalized)
MultiButtonsAction_wasd(up, left, down, right, normalized) ==
    MultiButtonsAction_quad(up, down, left, right, normalized)

\* variant of MultiButtonsAction_buttonState: the count never clamped
MultiButtonsAction_buttonStateRaw(a, i, be) ==
    Button_IsSetPressed(a.quadButtons.directions[i], be)

\* buttonState[i] of MultiButtonsAction::Pump (cpp 170-172)
MultiButtonsAction_buttonState(a, i, be) ==
    LET n == Button_IsSetPressed(a.quadButtons.directions[i], be)
    IN  IF a.quadButtons.normalize /\ n > 0 THEN 1 ELSE n

\* variant of MultiButtonsAction_state: x is Right minus Left
MultiButtonsAction_stateSwapped(a, be) ==
    [x |-> MultiButtonsAction_buttonState(a, Right, be) - MultiButtonsAction_buttonState(a, Left, be),
     y |-> MultiButtonsAction_buttonState(a, Up, be) - MultiButtonsAction_buttonState(a, Down, be)]

\* the state MultiButtonsAction::Pump computes (cpp 174-175)
MultiButtonsAction_state(a, be) ==
    [x |-> MultiButtonsAction_buttonState(a, Left, be) - MultiButtonsAction_buttonState(a, Right, be),
     y |-> MultiButtonsAction_buttonState(a, Up, be) - MultiButtonsAction_buttonState(a, Down, be)]

\* MultiButtonsAction::Pump
MultiButtonsAction_Pump(a, name, be) ==
    LET state == MultiButtonsAction_state(a, be)
    IN  IF ~Vector2Equals(state, a.last_state)
        THEN [action |-> [a EXCEPT !.last_state = state],
              calls |-> <<Emit(a, name, state, Vector2Subtract(state, a.last_state))>>]
        ELSE [action |-> a, calls |-> <<>>]

----------------------------------------------------------------------------
(* BufferedInput: the registry and PumpMessages *)

\* std::map iterates its keys in std::less<std::string> order; the names used
NameOrder == <<"jump", "look", "move", "zoom">>

\* variant of RegistryNames: the keys in the order they were inserted
RegistryNamesByInsertion(reg) ==
    [i \in 1 .. Cardinality(DOMAIN reg) |-> CHOOSE n \in DOMAIN reg : built[n].inserted = i]

\* the keys of the registry in iteration order
RegistryNames(reg) == SelectSeq(NameOrder, LAMBDA n : n \in DOMAIN reg)

\* the result of one case of the switch: what the Pump it called did, and the visit
Visit(r, name) == [action |-> r.action, calls |-> r.calls, visits |-> <<name>>]

\* variant of Action_Pump: the MultiButton case missing
Action_PumpNoMultiButton(a, name, be) ==
    CASE a.type = "Button" -> Visit(ButtonAction_Pump(a, name, be), name)
      [] a.type = "Axis" -> Visit(AxisAction_Pump(a, name, be), name)
      [] a.type = "Vector" -> Visit(VectorAction_Pump(a, name, be), name)
      [] OTHER -> [action |-> a, calls |-> <<>>, visits |-> <<>>]

\* the switch of PumpMessages on action->type (cpp 186-196)
Action_Pump(a, name, be) ==
    CASE a.type = "Button" -> Visit(ButtonAction_Pump(a, name, be), name)
      [] a.type = "Axis" -> Visit(AxisAction_Pump(a, name, be), name)
      [] a.type = "Vector" -> Visit(VectorAction_Pump(a, name, be), name)
      [] a.type = "MultiButton" -> Visit(MultiButtonsAction_Pump(a, name, be), name)
      [] OTHER -> [action |-> a, calls |-> <<>>, visits |-> <<>>]

\* the loop of PumpMessages over names: registry, emissions and visits so far
RECURSIVE PumpLoop(_, _, _)
PumpLoop(names, be, acc) ==
    IF names = <<>> THEN acc
    ELSE LET n == Head(names)
             r == Action_Pump(acc.actions[n], n, be)
         IN  PumpLoop(Tail(names), be,
                      [actions |-> [acc.actions EXCEPT ![n] = r.action],
                       calls |-> acc.calls \o r.calls,
                       pumped |-> acc.pumped \o r.visits])

\* variant of Gate: the argument ignored
GateIgnoresFlag(whileUnfocused, be) == ~be.focused

\* the focus gate of PumpMessages (cpp 184)
Gate(whileUnfocused, be) == ~whileUnfocused /\ ~be.focused

\* an Axis or gamepad-axes Vector action accumulates without bound: the model
\* stops pumping a registry that holds one after MaxFrames executed calls
Accumulates(reg) ==
    \E n \in DOMAIN reg :
        \/ reg[n].type = "Axis"
        \/ reg[n].type = "Vector" /\ reg[n].vector = "GamepadAxes"

\* the local variable state of the action's Pump, as computed before the test
Action_state(a, be) ==
    CASE a.type = "Button" -> Button_IsSetPressed(a.buttons, be)
      [] a.type = "Axis" -> AxisAction_accumulate(a.last_state, AxisAction_movement(a, be))
      [] a.type = "Vector" -> VectorAction_state(a, be)
      [] a.type = "MultiButton" -> MultiButtonsAction_state(a, be)

\* the state argument of the latest emission to name, d the one before this call
Latest(name, cs, d) ==
    LET own == SelectSeq(cs, LAMBDA c : c.name = name)
    IN  IF own = <<>> THEN d ELSE <<own[Len(own)].state>>

\* BufferedInput::PumpMessages(whileUnfocused)
PumpMessages(whileUnfocused) ==
    /\ Accumulates(actions) => frame < MaxFrames
    /\ before' = actions
    /\ flag' = whileUnfocused
    /\ IF Gate(whileUnfocused, backend)
       THEN /\ op' = "skip"
            /\ actions' = actions
            /\ pumped' = <<>>
            /\ calls' = <<>>
            /\ frame' = frame
            /\ UNCHANGED <<sampled, delivered>>
       ELSE LET r == PumpLoop(RegistryNames(actions), backend,
                              [actions |-> actions, calls |-> <<>>, pumped |-> <<>>])
            IN  /\ op' = "pump"
                /\ actions' = r.actions
                /\ pumped' = r.pumped
                /\ calls' = r.calls
                /\ frame' = IF Accumulates(actions) THEN frame + 1 ELSE frame
                /\ sampled' = [n \in DOMAIN actions |-> Action_state(actions[n], backend)]
                /\ delivered' = [n \in DOMAIN actions |-> Latest(n, r.calls, delivered[n])]
    /\ UNCHANGED <<built, backend>>

----------------------------------------------------------------------------
(* The raylib backend: the environment *)

\* the movements and positions the backend reports in the model
Movements == {0, 1, 3, Pow2(FLT_MANT_DIG)}

\* pointer positions: near the origin, and far from it, where floats are 2 apart
\* and Vector2Equals takes positions some floats apart for equal
Positions ==
    {[x |-> x, y |-> y] :
        x \in {0, 1, Pow2(FLT_MANT_DIG), Pow2(FLT_MANT_DIG) + 10, Pow2(FLT_MANT_DIG) + 20},
        y \in {0, 1}}

\* the wheel vectors GetMouseWheelMoveV() reports
WheelVectors == {[x |-> x, y |-> y] : x \in {0, 1}, y \in {0, 1}}

Toggle(S, e) == IF e \in S THEN S \ {e} ELSE S \cup {e}

\* nothing pressed, nothing moving, the window focused
BackendInit(pairs) ==
    [keyDown |-> {}, mouseDown |-> {}, padDown |-> {},
     wheelMove |-> 0, wheelMoveV |-> Vector2Zero, mousePosition |-> Vector2Zero,
     axisMovement |-> [p \in pairs |-> 0], focused |-> TRUE]

Event(be) ==
    /\ backend' = be
    /\ op' = "event"
    /\ before' = actions
    /\ pumped' = <<>>
    /\ calls' = <<>>
    /\ flag' = FALSE
    /\ UNCHANGED <<actions, built, frame, sampled, delivered>>

\* the slots the consumer connects
Callbacks == {"f", "g"}

\* the last two set_callback arguments, h the earlier ones
SetHistory(h, f) == IF Len(h) < 2 THEN Append(h, f) ELSE <<h[2], f>>

\* the consumer calls actions[n]->set_callback(f) between two frames
SetCallback ==
    \E n \in DOMAIN actions, f \in Callbacks :
        /\ actions' = [actions EXCEPT ![n] = set_callback(@, f)]
        /\ built' = [built EXCEPT ![n].set = SetHistory(@, f)]
        /\ op' = "set"
        /\ before' = actions
        /\ pumped' = <<>>
        /\ calls' = <<>>
        /\ flag' = FALSE
        /\ UNCHANGED <<backend, frame, sampled, delivered>>

\* IsKeyDown(k) changes
KeyEvent == \E k \in Codes : Event([backend EXCEPT !.keyDown = Toggle(@, k)])

\* IsMouseButtonDown(b) changes
MouseButtonEvent == \E b \in Codes : Event([backend EXCEPT !.mouseDown = Toggle(@, b)])

\* IsGamepadButtonDown(g, b) changes
GamepadButtonEvent ==
    \E g \in Codes, b \in Codes : Event([backend EXCEPT !.padDown = Toggle(@, <<g, b>>)])

\* GetMouseWheelMove() changes
WheelEvent ==
    \E m \in Movements \ {backend.wheelMove} : Event([backend EXCEPT !.wheelMove = m])

\* GetMouseWheelMove() changes by one notch
WheelNotchEvent == Event([backend EXCEPT !.wheelMove = 1 - @])

\* GetGamepadAxisMovement(g, a) changes, for the pairs some action names
GamepadAxisEvent ==
    \E p \in DOMAIN backend.axisMovement :
        \E m \in Movements \ {backend.axisMovement[p]} :
            Event([backend EXCEPT !.axisMovement[p] = m])

\* GetMouseWheelMoveV() changes
WheelVectorEvent ==
    \E v \in WheelVectors \ {backend.wheelMoveV} : Event([backend EXCEPT !.wheelMoveV = v])

\* GetGamepadAxisMovement(g, a) changes by one notch, for the pairs some action names
GamepadAxisNotchEvent ==
    \E p \in DOMAIN backend.axisMovement : Event([backend EXCEPT !.axisMovement[p] = 1 - @])

\* GetMousePosition() changes
MouseMoveEvent ==
    \E q \in Positions \ {backend.mousePosition} : Event([backend EXCEPT !.mousePosition = q])

\* GetMousePosition() changes along x
MouseMoveXEvent == Event([backend EXCEPT !.mousePosition.x = 1 - @])

\* IsWindowFocused() changes
FocusEvent == Event([backend EXCEPT !.focused = ~@])

----------------------------------------------------------------------------
(* The controls and control sets the model builds *)

Controls ==
    {Button_key(k) : k \in Codes} \cup {Button_btn(b) : b \in Codes}
        \cup {Button_pad(b, g) : b \in Codes, g \in Codes}

ControlLists == UNION {[1 .. n -> Controls] : n \in 0 .. MaxButtons}

ButtonSets == {ButtonSet_of(l) : l \in ControlLists}

KeyLists == UNION {[1 .. n -> {Button_key(k) : k \in Codes}] : n \in 0 .. MaxButtons}

KeySets == {ButtonSet_of(l) : l \in KeyLists}

InitGhosts ==
    /\ op = "init"
    /\ before = actions
    /\ pumped = <<>>
    /\ calls = <<>>
    /\ flag = FALSE
    /\ frame = 0
    /\ sampled = [n \in DOMAIN actions |-> actions[n].last_state]
    /\ delivered = [n \in DOMAIN actions |-> <<>>]

----------------------------------------------------------------------------
(* SpecButton: one Button Action over any control set *)

InitButton ==
    /\ \E buttons \in ButtonSets, combo \in BOOLEAN :
          /\ actions = [n \in {"jump"} |-> set_callback(ButtonAction_set(buttons, combo), "f")]
          /\ built = [n \in {"jump"} |-> [factory |-> "button_set"]]
    /\ backend = BackendInit({})
    /\ InitGhosts

NextButton ==
    \/ KeyEvent
    \/ MouseButtonEvent
    \/ PumpMessages(FALSE)

SpecButton == InitButton /\ [][NextButton]_vars

----------------------------------------------------------------------------
(* Claims about the Button Action *)

\* the emissions of action n among cs
CallsOf(n, cs) == SelectSeq(cs, LAMBDA c : c.name = n)

Dispatched(n, cs) == CallsOf(n, cs) # <<>>

IsButton(a) == a.type = "Button"

\* C1: a Button Action with combo=false dispatches in a pump if and only if the
\* count of pressed controls of its set differs from the stored last state; a
\* pump that finds the same count changes nothing of the action; and a pump
\* that directly follows an executed pump, the backend unchanged in between,
\* never dispatches.
C1_NonComboDispatchIffCountChanged ==
    [][op' = "pump" =>
        \A n \in DOMAIN actions :
            (IsButton(actions[n]) /\ ~actions[n].combo) =>
                LET count == Button_IsSetPressed(actions[n].buttons, backend)
                IN  /\ Dispatched(n, calls') <=> (count # actions[n].last_state)
                    /\ Len(CallsOf(n, calls')) <= 1
                    /\ (count = actions[n].last_state) => (actions'[n] = actions[n])
                    /\ (op = "pump") => ~Dispatched(n, calls')]_vars

\* C1 witness: a non-combo action was pumped with a control held down, the count
\* equal to the stored one: no dispatch and no change.
C1_Witness ==
    /\ op = "pump"
    /\ \E n \in DOMAIN actions :
          /\ IsButton(actions[n]) /\ ~actions[n].combo
          /\ before[n].last_state >= 1
          /\ Button_IsSetPressed(actions[n].buttons, backend) = before[n].last_state
          /\ actions[n] = before[n]
          /\ ~Dispatched(n, calls)

\* C2: a Button Action with combo=true over a 2-control set dispatches exactly on
\* the pumps where the count reaches 2 and on the pumps where it drops from 2 to
\* below 2, on no other pump, and the state it passes is the all-pressed boolean.
C2_ComboDispatchOnlyAtBoundary ==
    [][op' = "pump" =>
        \A n \in DOMAIN actions :
            (IsButton(actions[n]) /\ actions[n].combo /\ Len(actions[n].buttons) = 2) =>
                LET count == Button_IsSetPressed(actions[n].buttons, backend)
                    last == actions[n].last_state
                    cs == CallsOf(n, calls')
                IN  /\ Dispatched(n, calls') <=>
                          \/ count = 2 /\ last # 2
                          \/ last = 2 /\ count < 2
                    /\ Len(cs) <= 1
                    /\ \A i \in 1 .. Len(cs) :
                          /\ cs[i].state = BoolToInt(count = 2)
                          /\ cs[i].third = (last = 2)]_vars

\* C2 witness: a 2-control combo was pumped when one of the two was released, and
\* the released signal (state 0) was dispatched.
C2_Witness ==
    /\ op = "pump"
    /\ \E n \in DOMAIN actions :
          /\ IsButton(actions[n]) /\ actions[n].combo /\ Len(actions[n].buttons) = 2
          /\ before[n].last_state = 2
          /\ actions[n].last_state = 1
          /\ Len(CallsOf(n, calls)) = 1
          /\ CallsOf(n, calls)[1].state = 0

\* the combo action on {Key A, Key B} of the end-to-end scenario
\* (Key A is key code 0 of the model and Key B is key code 1)
IsScenarioCombo(a) ==
    /\ IsButton(a) /\ a.combo
    /\ a.buttons = ButtonSet_of(<<Button_key(0), Button_key(1)>>)

\* frames 1 and 2 of the scenario, as a relation between the states of a pump
ScenarioFrames12(n) ==
    /\ (actions[n].last_state = 0 /\ backend.keyDown = {0}) =>
          (~Dispatched(n, calls') /\ actions'[n].last_state = 1)
    /\ (actions[n].last_state = 1 /\ backend.keyDown = {0, 1}) =>
          /\ CallsOf(n, calls') = <<Emit(actions[n], n, 1, FALSE)>>
          /\ actions'[n].last_state = 2

\* C3 (as claimed): frame 1 (only A down, from 0) fires nothing and stores 1;
\* frame 2 (both down) dispatches (name, true, false) and stores 2; frame 3
\* (only B down) fires nothing and stores 1.
C3_Original ==
    [][op' = "pump" =>
        \A n \in DOMAIN actions :
            IsScenarioCombo(actions[n]) =>
                /\ ScenarioFrames12(n)
                /\ (actions[n].last_state = 2 /\ backend.keyDown = {1}) =>
                      (~Dispatched(n, calls') /\ actions'[n].last_state = 1)]_vars

\* C3 (amended): frames 1 and 2 as claimed; frame 3 (only B down, after both
\* were down) dispatches (name, false, true) once and stores 1.
C3_ScenarioReleaseDispatches ==
    [][op' = "pump" =>
        \A n \in DOMAIN actions :
            IsScenarioCombo(actions[n]) =>
                /\ ScenarioFrames12(n)
                /\ (actions[n].last_state = 2 /\ backend.keyDown = {1}) =>
                      /\ CallsOf(n, calls') = <<Emit(actions[n], n, 0, TRUE)>>
                      /\ actions'[n].last_state = 1]_vars

\* C3 witness: the state after frame 3 of the scenario.
C3_Witness ==
    /\ op = "pump"
    /\ \E n \in DOMAIN actions :
          /\ IsScenarioCombo(actions[n])
          /\ before[n].last_state = 2
          /\ backend.keyDown = {1}
          /\ actions[n].last_state = 1
          /\ Len(CallsOf(n, calls)) = 1

----------------------------------------------------------------------------
(* SpecAxis: one Axis Action, built by either factory *)

InitAxis ==
    /\ \/ \E axis \in Codes, gamepad \in Codes :
             /\ actions = [n \in {"zoom"} |->
                              set_callback(AxisAction_gamepad_axis(axis, gamepad), "f")]
             /\ built = [n \in {"zoom"} |->
                            [factory |-> "gamepad_axis", axis |-> axis, gamepad |-> gamepad]]
             /\ backend = BackendInit({<<gamepad, axis>>})
       \/ /\ actions = [n \in {"zoom"} |-> set_callback(AxisAction_mouse_wheel, "f")]
          /\ built = [n \in {"zoom"} |-> [factory |-> "mouse_wheel", axis |-> 0, gamepad |-> 0]]
          /\ backend = BackendInit({<<0, 0>>})
    /\ InitGhosts

NextAxis ==
    \/ WheelEvent
    \/ GamepadAxisEvent
    \/ PumpMessages(FALSE)

SpecAxis == InitAxis /\ [][NextAxis]_vars

IsAxis(a) == a.type = "Axis"

\* C6 (as claimed): a pump of an Axis Action that samples movement 0 fires no
\* callback and leaves the running state unchanged; one that samples a nonzero
\* movement m dispatches (name, previous state + m, m) and leaves the running
\* state increased by m.
C6_Original ==
    [][op' = "pump" =>
        \A n \in DOMAIN actions :
            IsAxis(actions[n]) =>
                LET m == AxisAction_movement(actions[n], backend)
                    last == actions[n].last_state
                IN  /\ (m = 0) => (~Dispatched(n, calls') /\ actions'[n] = actions[n])
                    /\ (m # 0) =>
                          /\ CallsOf(n, calls') = <<Emit(actions[n], n, last + m, m)>>
                          /\ actions'[n].last_state = last + m]_vars

\* C6 (amended): movement 0 fires no callback and changes nothing; a nonzero
\* movement m gives s = float(previous + m); if s differs from the previous state
\* the pump dispatches (name, s, float(s - previous)) once and stores s, and if s
\* equals it (m is lost in rounding) the pump fires nothing and changes nothing.
\* Whenever previous + m is a float, that is the dispatch (name, previous + m, m).
C6_AxisAccumulatesRounded ==
    [][op' = "pump" =>
        \A n \in DOMAIN actions :
            IsAxis(actions[n]) =>
                LET m == AxisAction_movement(actions[n], backend)
                    last == actions[n].last_state
                    s == FloatRound(last + m)
                IN  /\ (m = 0 \/ s = last) =>
                          (~Dispatched(n, calls') /\ actions'[n] = actions[n])
                    /\ (m # 0 /\ s # last) =>
                          /\ CallsOf(n, calls') = <<Emit(actions[n], n, s, FloatRound(s - last))>>
                          /\ actions'[n].last_state = s
                    /\ (m # 0 /\ s = last + m) =>
                          /\ CallsOf(n, calls') = <<Emit(actions[n], n, last + m, m)>>
                          /\ actions'[n].last_state = last + m]_vars

\* C6 witness: a pump sampled a nonzero movement on top of a nonzero running
\* state and dispatched the new state.
C6_Witness ==
    /\ op = "pump"
    /\ \E n \in DOMAIN actions :
          /\ IsAxis(actions[n])
          /\ before[n].last_state # 0
          /\ AxisAction_movement(before[n], backend) # 0
          /\ Len(CallsOf(n, calls)) = 1
          /\ CallsOf(n, calls)[1].state = actions[n].last_state
          /\ actions[n].last_state # before[n].last_state

\* C7 (as claimed): an Axis Action built by gamepad_axis(axis, gamepad) samples
\* GetGamepadAxisMovement(gamepad, axis) on each pump, so a pump accumulates that
\* movement; one built by mouse_wheel samples GetMouseWheelMove().
C7_Original ==
    [][op' = "pump" =>
        \A n \in DOMAIN actions :
            IsAxis(actions[n]) =>
                LET source == IF built[n].factory = "gamepad_axis"
                              THEN backend.axisMovement[<<built[n].gamepad, built[n].axis>>]
                              ELSE backend.wheelMove
                IN  /\ AxisAction_movement(actions[n], backend) = source
                    /\ actions'[n].last_state =
                          (IF source # 0 THEN FloatRound(actions[n].last_state + source)
                           ELSE actions[n].last_state)]_vars

----------------------------------------------------------------------------
(* SpecControl: one Button Action on a single control built by a           *)
(* constructor of Button                                                   *)

\* the constructor calls: key(code), mouse_button(code), gamepad_button(code, gamepad)
ControlCalls ==
    {[ctor |-> "key", code |-> c, gamepad |-> 0] : c \in Codes}
        \cup {[ctor |-> "mouse_button", code |-> c, gamepad |-> 0] : c \in Codes}
        \cup {[ctor |-> "gamepad_button", code |-> c, gamepad |-> g] : c \in Codes, g \in Codes}

\* the control a constructor call returns
ControlOf(call) ==
    CASE call.ctor = "key" -> Button_key(call.code)
      [] call.ctor = "mouse_button" -> Button_btn(call.code)
      [] call.ctor = "gamepad_button" -> Button_pad(call.code, call.gamepad)

InitControl ==
    /\ \E call \in ControlCalls :
          /\ actions = [n \in {"jump"} |->
                           set_callback(ButtonAction_button(ControlOf(call), FALSE), "f")]
          /\ built = [n \in {"jump"} |-> [factory |-> "button", control |-> call]]
    /\ backend = BackendInit({})
    /\ InitGhosts

NextControl ==
    \/ KeyEvent
    \/ MouseButtonEvent
    \/ GamepadButtonEvent
    \/ PumpMessages(FALSE)

SpecControl == InitControl /\ [][NextControl]_vars

\* the backend primitive of a constructor call's kind, asked with its codes
PrimitiveDown(call, be) ==
    CASE call.ctor = "key" -> call.code \in be.keyDown
      [] call.ctor = "mouse_button" -> call.code \in be.mouseDown
      [] call.ctor = "gamepad_button" -> <<call.gamepad, call.code>> \in be.padDown

\* C8 (as claimed): for the control built by a constructor, IsPressed is the
\* backend primitive of the control's kind asked with the control's codes:
\* IsKeyDown(c) for key(c), IsMouseButtonDown(c) for mouse_button(c) and
\* IsGamepadButtonDown(g, c) for gamepad_button(c, g); so a pump of a Button
\* Action on that one control stores 1 exactly when that primitive reports it down.
C8_Original ==
    \A n \in DOMAIN actions :
        built[n].factory = "button" =>
            LET call == built[n].control
                control == actions[n].buttons[1]
            IN  /\ Button_IsPressed(control, backend) = PrimitiveDown(call, backend)
                /\ (op = "pump") =>
                      (actions[n].last_state = BoolToInt(PrimitiveDown(call, backend)))

----------------------------------------------------------------------------
(* SpecMulti: one Multi-Button Directional Action over sets of keys *)

InitMulti ==
    /\ \E up \in KeySets, down \in KeySets, left \in KeySets, right \in KeySets,
          normalized \in BOOLEAN :
          /\ actions = [n \in {"move"} |->
                set_callback(MultiButtonsAction_quad(up, down, left, right, normalized), "f")]
          /\ built = [n \in {"move"} |-> [factory |-> "quad"]]
    /\ backend = BackendInit({})
    /\ InitGhosts

NextMulti ==
    \/ KeyEvent
    \/ PumpMessages(FALSE)

SpecMulti == InitMulti /\ [][NextMulti]_vars

IsMulti(a) == a.type = "MultiButton"

\* the number of members of a control set that are pressed
PressedCount(buttons, be) ==
    Cardinality({i \in 1 .. Len(buttons) : Button_IsPressed(buttons[i], be)})

\* c(d): the pressed controls of direction d, at most 1 when normalize is set
DirectionCount(a, d, be) ==
    LET c == PressedCount(a.quadButtons.directions[d], be)
    IN  IF a.quadButtons.normalize /\ c > 1 THEN 1 ELSE c

\* a Multi-Button Directional Action with two controls bound to Left, both
\* pressed, and nothing pressed in the other directions
BothLeftPressed(a, be) ==
    /\ IsMulti(a)
    /\ Len(a.quadButtons.directions[Left]) = 2
    /\ PressedCount(a.quadButtons.directions[Left], be) = 2
    /\ \A d \in {Up, Down, Right} : PressedCount(a.quadButtons.directions[d], be) = 0

\* C9 (as claimed): a Multi-Button Directional Action with two controls bound to
\* Left, pumped while both are pressed and nothing is pressed in the other
\* directions, has state.x = -1 when normalize is set and -2 when it is not.
C9_Original ==
    (op = "pump") =>
        \A n \in DOMAIN actions :
            BothLeftPressed(actions[n], backend) =>
                actions[n].last_state.x = (IF actions[n].quadButtons.normalize THEN -1 ELSE -2)

\* C9 (amended): such a pump has state.x = +1 when normalize is set and
\* state.x = +2 when it is not (x is Left minus Right).
C9_BothLeftPressedPositive ==
    (op = "pump") =>
        \A n \in DOMAIN actions :
            BothLeftPressed(actions[n], backend) =>
                actions[n].last_state.x = (IF actions[n].quadButtons.normalize THEN 1 ELSE 2)

\* C9 witness: such an action, normalized, was pumped with both Left controls
\* pressed, and dispatched its new state.
C9_Witness ==
    /\ op = "pump"
    /\ \E n \in DOMAIN actions :
          /\ BothLeftPressed(actions[n], backend)
          /\ actions[n].quadButtons.normalize
          /\ Len(CallsOf(n, calls)) = 1
          /\ CallsOf(n, calls)[1].state = actions[n].last_state

\* C10: after every executed pump of a Multi-Button Directional Action the stored
\* state is x = c(Left) - c(Right), y = c(Up) - c(Down); with normalize set both
\* components are in {-1, 0, 1}, and opposite directions pressed together give 0
\* on that axis.
C10_StateIsDirectionDifference ==
    (op = "pump") =>
        \A n \in DOMAIN actions :
            IsMulti(actions[n]) =>
                LET a == actions[n]
                    c(d) == DirectionCount(a, d, backend)
                IN  /\ a.last_state.x = c(Left) - c(Right)
                    /\ a.last_state.y = c(Up) - c(Down)
                    /\ a.quadButtons.normalize =>
                          /\ a.last_state.x \in {-1, 0, 1}
                          /\ a.last_state.y \in {-1, 0, 1}
                          /\ (c(Left) > 0 /\ c(Right) > 0) => (a.last_state.x = 0)
                          /\ (c(Up) > 0 /\ c(Down) > 0) => (a.last_state.y = 0)

\* C10 witness: a normalized action was pumped with two Left controls and one
\* Right control pressed (x = 0) and Up alone pressed on the other axis (y = 1).
C10_Witness ==
    /\ op = "pump"
    /\ \E n \in DOMAIN actions :
          /\ IsMulti(actions[n])
          /\ actions[n].quadButtons.normalize
          /\ PressedCount(actions[n].quadButtons.directions[Left], backend) = 2
          /\ PressedCount(actions[n].quadButtons.directions[Right], backend) = 1
          /\ PressedCount(actions[n].quadButtons.directions[Up], backend) = 1
          /\ PressedCount(actions[n].quadButtons.directions[Down], backend) = 0
          /\ actions[n].last_state = [x |-> 0, y |-> 1]

----------------------------------------------------------------------------
(* SpecRegistry: a registry of up to MaxActions actions of the four kinds, *)
(* pumped with either argument, the window gaining and losing focus        *)

MaxActions == 2

\* the action registered under each name
Prototype(n, combo) ==
    CASE n = "jump" ->
            ButtonAction_set(ButtonSet_of(<<Button_key(0), Button_key(1)>>), combo)
      [] n = "look" -> VectorAction_mouse_position
      [] n = "move" ->
            MultiButtonsAction_quad(ButtonSet_of(<<Button_key(0)>>), <<>>,
                                    ButtonSet_of(<<Button_key(1)>>), <<>>, TRUE)
      [] n = "zoom" -> AxisAction_mouse_wheel

InitRegistry ==
    /\ \E names \in SUBSET {NameOrder[i] : i \in 1 .. Len(NameOrder)}, combo \in BOOLEAN :
          /\ Cardinality(names) \in 1 .. MaxActions
          /\ actions = [n \in names |-> set_callback(Prototype(n, combo), "f")]
          /\ built = [n \in names |-> [factory |-> "prototype"]]
    /\ backend = BackendInit({})
    /\ InitGhosts

\* the readings no registered action reads stay at rest
ReadsKeys(reg) == \E n \in DOMAIN reg : reg[n].type \in {"Button", "MultiButton"}

ReadsWheel(reg) == \E n \in DOMAIN reg : reg[n].type = "Axis"

ReadsMouse(reg) == \E n \in DOMAIN reg : reg[n].type = "Vector"

NextRegistry ==
    \/ ReadsKeys(actions) /\ KeyEvent
    \/ ReadsWheel(actions) /\ WheelNotchEvent
    \/ ReadsMouse(actions) /\ MouseMoveXEvent
    \/ FocusEvent
    \/ \E w \in BOOLEAN : PumpMessages(w)

SpecRegistry == InitRegistry /\ [][NextRegistry]_vars

\* how many times name n occurs in the sequence of visits
Visits(n, seq) == Cardinality({i \in 1 .. Len(seq) : seq[i] = n})

\* C4: in a call of PumpMessages that the focus gate does not skip, the Pump of
\* every registered action is invoked exactly once, and the callback of each
\* action fires at most once, and only when the action's new state differs from
\* the last state it had stored.
C4_EachActionPumpedOnce ==
    (op = "pump") =>
        /\ Len(pumped) = Cardinality(DOMAIN actions)
        /\ \A n \in DOMAIN actions :
              /\ Visits(n, pumped) = 1
              /\ Len(CallsOf(n, calls)) <= 1
              /\ \A i \in 1 .. Len(CallsOf(n, calls)) : Len(CallsOf(n, calls)[i].slots) = 1
              /\ Dispatched(n, calls) => (actions[n].last_state # before[n].last_state)

\* C4 witness: a call pumped two actions, one of which dispatched and the other not.
C4_Witness ==
    /\ op = "pump"
    /\ Len(pumped) = 2
    /\ \E n \in DOMAIN actions, m \in DOMAIN actions :
          /\ Dispatched(n, calls)
          /\ ~Dispatched(m, calls)

\* C5: PumpMessages called with whileUnfocused = false while the window is
\* unfocused leaves every action's last state unchanged and fires no callback;
\* with whileUnfocused = true, or the window focused, every action is pumped.
C5_FocusGate ==
    (op \in {"pump", "skip"}) =>
        IF ~flag /\ ~backend.focused
        THEN /\ op = "skip"
             /\ \A n \in DOMAIN actions : actions[n].last_state = before[n].last_state
             /\ calls = <<>>
             /\ pumped = <<>>
        ELSE /\ op = "pump"
             /\ \A n \in DOMAIN actions : Visits(n, pumped) = 1

\* C5 witness: a call was skipped by the gate although a key of a Button Action
\* had gone down since its last state was stored.
C5_Witness ==
    /\ op = "skip"
    /\ \E n \in DOMAIN actions :
          /\ IsButton(actions[n])
          /\ Button_IsSetPressed(actions[n].buttons, backend) # actions[n].last_state

\* C5 second case: a call with whileUnfocused = true pumped while unfocused.
C5_PumpedUnfocused ==
    /\ op = "pump"
    /\ flag
    /\ ~backend.focused
    /\ calls # <<>>

----------------------------------------------------------------------------
(* SpecCallback: one action of any of the four kinds, constructed without  *)
(* a callback; the consumer sets and replaces its callback between frames  *)

InitCallback ==
    /\ \E n \in {NameOrder[i] : i \in 1 .. Len(NameOrder)}, combo \in BOOLEAN :
          /\ actions = [m \in {n} |-> Prototype(m, combo)]
          /\ built = [m \in {n} |-> [factory |-> "prototype", set |-> <<>>]]
    /\ backend = BackendInit({})
    /\ InitGhosts

NextCallback ==
    \/ ReadsKeys(actions) /\ KeyEvent
    \/ ReadsWheel(actions) /\ WheelNotchEvent
    \/ ReadsMouse(actions) /\ MouseMoveXEvent
    \/ SetCallback
    \/ PumpMessages(FALSE)

SpecCallback == InitCallback /\ [][NextCallback]_vars

\* the last state an action is constructed with
AtRest(a) ==
    IF a.type \in {"Button", "Axis"} THEN a.last_state = 0 ELSE a.last_state = Vector2Zero

\* the slots connected after the set_callback calls recorded in h
CurrentSlots(h) == IF h = <<>> THEN <<>> ELSE <<h[Len(h)]>>

\* C11: for every action kind, a dispatch invokes the callback set last exactly
\* once and no callback set before it (after set_callback(f) then set_callback(g):
\* g once, f never); callbacks do not accumulate across set_callback calls; and
\* set_callback changes nothing of the action but its callback, so the action's
\* last state is the one it had.
C11_SetCallbackReplaces ==
    [][/\ op' = "pump" =>
            \A n \in DOMAIN actions :
                \A i \in 1 .. Len(CallsOf(n, calls')) :
                    CallsOf(n, calls')[i].slots = CurrentSlots(built[n].set)
       /\ op' = "set" =>
            \A n \in DOMAIN actions :
                /\ actions'[n].callback = CurrentSlots(built'[n].set)
                /\ Len(actions'[n].callback) = 1
                /\ actions'[n].last_state = actions[n].last_state
                /\ [actions'[n] EXCEPT !.callback = <<>>] =
                      [actions[n] EXCEPT !.callback = <<>>]]_vars

\* C11 witness: set_callback("f") then set_callback("g") were called on an action
\* that had already stored a state, and a later pump dispatched to "g" alone.
C11_Witness ==
    /\ op = "pump"
    /\ \E n \in DOMAIN actions :
          /\ built[n].set = <<"f", "g">>
          /\ ~AtRest(before[n])
          /\ Len(CallsOf(n, calls)) = 1
          /\ CallsOf(n, calls)[1].slots = <<"g">>

----------------------------------------------------------------------------
(* SpecVector: one Vector Action, built by any of its three factories *)

InitVector ==
    /\ \/ /\ actions = [n \in {"look"} |-> set_callback(VectorAction_mouse_wheel, "f")]
          /\ built = [n \in {"look"} |-> [factory |-> "mouse_wheel"]]
          /\ backend = BackendInit({})
       \/ /\ actions = [n \in {"look"} |-> set_callback(VectorAction_mouse_position, "f")]
          /\ built = [n \in {"look"} |-> [factory |-> "mouse_position"]]
          /\ backend = BackendInit({})
       \/ \E horizontal \in Codes, vertical \in Codes, gamepadHorizontal \in Codes,
             gamepadVertical \in {-1, 0} :
             LET a == VectorAction_gamepad_axes(horizontal, vertical,
                                                gamepadHorizontal, gamepadVertical)
             IN  /\ actions = [n \in {"look"} |-> set_callback(a, "f")]
                 /\ built = [n \in {"look"} |-> [factory |-> "gamepad_axes"]]
                 /\ backend = BackendInit({<<a.gamepad.horizontal.id, a.gamepad.horizontal.axis>>,
                                           <<a.gamepad.vertical.id, a.gamepad.vertical.axis>>})
    /\ InitGhosts

\* the source a Vector Action reads
ReadsVector(reg, source) ==
    \E n \in DOMAIN reg : reg[n].type = "Vector" /\ reg[n].vector = source

NextVector ==
    \/ ReadsVector(actions, "MouseWheel") /\ WheelVectorEvent
    \/ ReadsVector(actions, "MousePosition") /\ MouseMoveEvent
    \/ ReadsVector(actions, "GamepadAxes") /\ GamepadAxisNotchEvent
    \/ PumpMessages(FALSE)

SpecVector == InitVector /\ [][NextVector]_vars

IsVector(a) == a.type = "Vector"

\* the pair of movements a gamepad-axes Vector Action reads
AxesMovement(a, be) ==
    [x |-> be.axisMovement[<<a.gamepad.horizontal.id, a.gamepad.horizontal.axis>>],
     y |-> be.axisMovement[<<a.gamepad.vertical.id, a.gamepad.vertical.axis>>]]

\* what a pump of Vector Action n does when it computes state s: nothing when s
\* equals the stored state under Vector2Equals, else one dispatch of
\* (name, s, s - stored) and s stored
VectorPumps(n, s) ==
    IF Vector2Equals(s, actions[n].last_state)
    THEN ~Dispatched(n, calls') /\ actions'[n] = actions[n]
    ELSE /\ CallsOf(n, calls') =
               <<Emit(actions[n], n, s, Vector2Subtract(s, actions[n].last_state))>>
         /\ actions'[n].last_state = s

\* C12 (as claimed): after each executed pump of a Vector Action with the
\* mouse-wheel-vector source, like one with the gamepad-axis-pair source, the
\* running state is the previous running state plus this frame's vector; only
\* the mouse-position source replaces the state with the reading.
C12_Original ==
    [][op' = "pump" =>
        \A n \in DOMAIN actions :
            IsVector(actions[n]) =>
                LET last == actions[n].last_state
                    plus(v) == [x |-> last.x + v.x, y |-> last.y + v.y]
                IN  actions'[n].last_state =
                        CASE actions[n].vector = "MouseWheel" -> plus(backend.wheelMoveV)
                          [] actions[n].vector = "GamepadAxes" ->
                                plus(AxesMovement(actions[n], backend))
                          [] actions[n].vector = "MousePosition" -> backend.mousePosition]_vars

\* C12 (amended): a pump of a Vector Action with the mouse-wheel-vector source
\* computes this frame's wheel vector as its state, not a sum: it replaces the
\* running state with it, as the mouse-position source does with the pointer
\* position; only the gamepad-axis-pair source computes the previous running
\* state plus this frame's movements.  The computed state is dispatched and
\* stored when it differs from the stored one under Vector2Equals.
C12_WheelVectorReplaces ==
    [][op' = "pump" =>
        \A n \in DOMAIN actions :
            IsVector(actions[n]) =>
                LET last == actions[n].last_state
                    m == AxesMovement(actions[n], backend)
                IN  CASE actions[n].vector = "MouseWheel" -> VectorPumps(n, backend.wheelMoveV)
                      [] actions[n].vector = "MousePosition" ->
                            VectorPumps(n, backend.mousePosition)
                      [] actions[n].vector = "GamepadAxes" ->
                            VectorPumps(n, [x |-> FloatRound(last.x + m.x),
                                            y |-> FloatRound(last.y + m.y)])]_vars

\* C12 witness: a mouse-wheel Vector Action holding a nonzero state was pumped
\* with another nonzero wheel vector, and stores that vector, not the sum.
C12_Witness ==
    /\ op = "pump"
    /\ \E n \in DOMAIN actions :
          /\ IsVector(actions[n]) /\ actions[n].vector = "MouseWheel"
          /\ before[n].last_state # Vector2Zero
          /\ backend.wheelMoveV \notin {Vector2Zero, before[n].last_state}
          /\ actions[n].last_state = backend.wheelMoveV
          /\ Len(CallsOf(n, calls)) = 1

IsMousePosition(a) == IsVector(a) /\ a.vector = "MousePosition"

\* C13 (as claimed): a pump of a mouse-position Vector Action dispatches if and
\* only if the position sampled at this pump differs, by more than the epsilon of
\* the comparison, from the position sampled at the previous pump, and the delta
\* dispatched is the new position minus that one.
C13_Original ==
    [][op' = "pump" =>
        \A n \in DOMAIN actions :
            IsMousePosition(actions[n]) =>
                LET new == backend.mousePosition
                    old == sampled[n]
                IN  /\ Dispatched(n, calls') <=> ~Vector2Equals(new, old)
                    /\ \A i \in 1 .. Len(CallsOf(n, calls')) :
                          CallsOf(n, calls')[i].third = Vector2Subtract(new, old)]_vars

\* C13 (amended): a pump of a mouse-position Vector Action dispatches if and only
\* if the position sampled at this pump differs, under Vector2Equals, from the
\* stored position, which is the position of the last dispatch ((0, 0) before
\* the first) and not the sample of the previous pump; it dispatches
\* (name, new, new - stored) and stores new; a pump that does not dispatch
\* leaves the stored position as it was.
C13_DispatchAgainstStored ==
    [][op' = "pump" =>
        \A n \in DOMAIN actions :
            IsMousePosition(actions[n]) =>
                LET new == backend.mousePosition
                    old == actions[n].last_state
                IN  /\ Dispatched(n, calls') <=> ~Vector2Equals(new, old)
                    /\ Len(CallsOf(n, calls')) <= 1
                    /\ \A i \in 1 .. Len(CallsOf(n, calls')) :
                          /\ CallsOf(n, calls')[i].state = new
                          /\ CallsOf(n, calls')[i].third = Vector2Subtract(new, old)
                    /\ actions'[n].last_state = (IF Dispatched(n, calls') THEN new ELSE old)
                    /\ old = (IF delivered[n] = <<>> THEN Vector2Zero ELSE delivered[n][1])]_vars

\* C13 witness: with the far position P stored, a pump sampled P + 20 and
\* dispatched the difference to the stored position, 20.
C13_Witness ==
    /\ op = "pump"
    /\ \E n \in DOMAIN actions :
          /\ IsMousePosition(actions[n])
          /\ before[n].last_state.x = Pow2(FLT_MANT_DIG)
          /\ sampled[n].x = Pow2(FLT_MANT_DIG) + 20
          /\ Len(CallsOf(n, calls)) = 1
          /\ CallsOf(n, calls)[1].third.x = 20

\* C13 second case: a pump sampled a position that differs from the stored one
\* and equals it under Vector2Equals: no dispatch, the stored position kept.
C13_WithinEpsilon ==
    /\ op = "pump"
    /\ \E n \in DOMAIN actions :
          /\ IsMousePosition(actions[n])
          /\ sampled[n] # actions[n].last_state
          /\ calls = <<>>

----------------------------------------------------------------------------
(* Further claims about the Button Action, under SpecButton *)

\* C14 (as claimed): every dispatch of a Button Action with combo=false passes
\* the new raw pressed count as the state and the previous raw pressed count as
\* the third argument (the argument received, read as a number): a change of
\* count from 2 to 1 is delivered as (name, 1, 2).
C14_Original ==
    [][op' = "pump" =>
        \A n \in DOMAIN actions :
            (IsButton(actions[n]) /\ ~actions[n].combo) =>
                \A i \in 1 .. Len(CallsOf(n, calls')) :
                    /\ CallsOf(n, calls')[i].state =
                          Button_IsSetPressed(actions[n].buttons, backend)
                    /\ BoolToInt(CallsOf(n, calls')[i].third) = actions[n].last_state]_vars

\* C14 (amended): every dispatch of a Button Action with combo=false passes the
\* new raw pressed count as the state, and as the third argument the boolean
\* wasPressed: whether the previous raw pressed count was not 0.  A change of
\* count from 2 to 1 is delivered as (name, 1, true).
C14_ThirdIsWasPressed ==
    [][op' = "pump" =>
        \A n \in DOMAIN actions :
            (IsButton(actions[n]) /\ ~actions[n].combo) =>
                \A i \in 1 .. Len(CallsOf(n, calls')) :
                    /\ CallsOf(n, calls')[i].state =
                          Button_IsSetPressed(actions[n].buttons, backend)
                    /\ CallsOf(n, calls')[i].third \in BOOLEAN
                    /\ CallsOf(n, calls')[i].third = (actions[n].last_state # 0)]_vars

\* C14 witness: the count of a non-combo action went from 2 to 1 and the pump
\* delivered (name, 1, true).
C14_Witness ==
    /\ op = "pump"
    /\ \E n \in DOMAIN actions :
          /\ IsButton(actions[n]) /\ ~actions[n].combo
          /\ before[n].last_state = 2
          /\ Len(CallsOf(n, calls)) = 1
          /\ CallsOf(n, calls)[1].state = 1
          /\ CallsOf(n, calls)[1].third = TRUE

----------------------------------------------------------------------------
(* SpecControlSet: one Button Action over the control set built from a     *)
(* list of controls, each made by a constructor of Button                  *)

\* lists of at most MaxButtons constructor calls
ControlCallLists == UNION {[1 .. n -> ControlCalls] : n \in 0 .. MaxButtons}

\* the controls the calls of a list return, in the list's order
ControlsOf(l) == [i \in 1 .. Len(l) |-> ControlOf(l[i])]

InitControlSet ==
    /\ \E l \in ControlCallLists, combo \in BOOLEAN :
          /\ actions = [n \in {"jump"} |->
                           set_callback(ButtonAction_set(ButtonSet_of(ControlsOf(l)), combo), "f")]
          /\ built = [n \in {"jump"} |-> [factory |-> "button_set", controls |-> l]]
    /\ backend = BackendInit({})
    /\ InitGhosts

\* the backend with the primitive of a constructor call's kind and codes toggled
ToggleSource(be, call) ==
    CASE call.ctor = "key" -> [be EXCEPT !.keyDown = Toggle(@, call.code)]
      [] call.ctor = "mouse_button" -> [be EXCEPT !.mouseDown = Toggle(@, call.code)]
      [] call.ctor = "gamepad_button" ->
            [be EXCEPT !.padDown = Toggle(@, <<call.gamepad, call.code>>)]

\* the physical source one of the listed controls denotes goes down or up
SourceEvent ==
    \E n \in DOMAIN actions :
        \E i \in 1 .. Len(built[n].controls) :
            Event(ToggleSource(backend, built[n].controls[i]))

NextControlSet ==
    \/ SourceEvent
    \/ PumpMessages(FALSE)

SpecControlSet == InitControlSet /\ [][NextControlSet]_vars

\* the distinct physical sources a list of constructor calls denotes
SourcesOf(l) == {l[i] : i \in 1 .. Len(l)}

\* C15 (as claimed): of any two controls built by key, mouse_button or
\* gamepad_button that denote different physical sources, exactly one is ordered
\* strictly before the other; so the control set built from k distinct controls
\* has k members, and a pump with all k sources down stores the count k.
C15_Original ==
    \A n \in DOMAIN actions :
        built[n].factory = "button_set" =>
            LET l == built[n].controls
                k == Cardinality(SourcesOf(l))
            IN  /\ \A c \in SourcesOf(l), d \in SourcesOf(l) :
                      (c # d) => (Button_Less(ControlOf(c), ControlOf(d))
                                    # Button_Less(ControlOf(d), ControlOf(c)))
                /\ Len(actions[n].buttons) = k
                /\ (op = "pump" /\ \A c \in SourcesOf(l) : PrimitiveDown(c, backend)) =>
                      (actions[n].last_state = k)

\* C16: after every executed pump of a Button Action, combo or not, the stored
\* last state is the pressed count sampled in that pump, whether or not the
\* callback fired; in combo mode a change of count that does not cross the
\* all-pressed boundary is stored without a dispatch.
C16_LastStateIsSampledCount ==
    (op = "pump") =>
        \A n \in DOMAIN actions :
            IsButton(actions[n]) =>
                LET size == Len(actions[n].buttons)
                    old == before[n].last_state
                    new == actions[n].last_state
                IN  /\ new = Button_IsSetPressed(actions[n].buttons, backend)
                    /\ new = sampled[n]
                    /\ (actions[n].combo /\ (old = size) = (new = size)) =>
                          ~Dispatched(n, calls)

\* C16 witness: a pump of a 2-control combo found one control pressed, coming
\* from none: it stored 1 and fired nothing.
C16_Witness ==
    /\ op = "pump"
    /\ \E n \in DOMAIN actions :
          /\ IsButton(actions[n]) /\ actions[n].combo /\ Len(actions[n].buttons) = 2
          /\ before[n].last_state = 0
          /\ actions[n].last_state = 1
          /\ ~Dispatched(n, calls)

\* C19: in every reachable state of a Button Action, from construction through
\* any sequence of pumps, the stored last state is a count held in 8 bits and at
\* most the number of controls of its control set.
C19_LastStateAtMostSetSize ==
    \A n \in DOMAIN actions :
        IsButton(actions[n]) =>
            /\ actions[n].last_state \in 0 .. 255
            /\ actions[n].last_state <= Len(actions[n].buttons)

\* C19 witness: a pump stored a count equal to the size of a 2-control set.
C19_Witness ==
    /\ op = "pump"
    /\ \E n \in DOMAIN actions :
          /\ IsButton(actions[n])
          /\ Len(actions[n].buttons) = 2
          /\ actions[n].last_state = 2

----------------------------------------------------------------------------
(* Further claims about the registry, under SpecRegistry *)

\* the third argument a dispatch of action a passes with new state s while old
\* is stored: the delta s - old in float arithmetic, and for a Button Action,
\* which passes no delta, wasPressed computed from old
ThirdFrom(a, s, old) ==
    CASE a.type = "Axis" -> FloatSub(s, old)
      [] a.type \in {"Vector", "MultiButton"} -> Vector2Subtract(s, old)
      [] a.type = "Button" -> IF a.combo THEN old = Len(a.buttons) ELSE old # 0

\* C17: in every action kind the callback is invoked before the new state is
\* stored: while the callback runs the action's last state still holds the
\* previous value, once the pump returns it holds the new one, and the delta
\* passed is the new state minus the value stored at callback time.
C17_CallbackBeforeStore ==
    (op = "pump") =>
        \A n \in DOMAIN actions :
            \A i \in 1 .. Len(CallsOf(n, calls)) :
                LET c == CallsOf(n, calls)[i]
                IN  /\ c.seen = before[n].last_state
                    /\ c.seen # actions[n].last_state
                    /\ actions[n].last_state = sampled[n]
                    /\ IsButton(actions[n]) \/ c.state = actions[n].last_state
                    /\ c.third = ThirdFrom(actions[n], sampled[n], c.seen)

\* C17 witness: an Axis Action holding a nonzero state dispatched: the callback
\* saw the previous state, and the new one is stored.
C17_Witness ==
    /\ op = "pump"
    /\ \E n \in DOMAIN actions :
          /\ IsAxis(actions[n])
          /\ Len(CallsOf(n, calls)) = 1
          /\ CallsOf(n, calls)[1].seen # 0
          /\ CallsOf(n, calls)[1].seen = before[n].last_state
          /\ CallsOf(n, calls)[1].state = actions[n].last_state
          /\ CallsOf(n, calls)[1].third = actions[n].last_state - before[n].last_state

\* C20: for a combo Button Action with a non-empty control set, after every
\* executed pump the boolean most recently delivered to the callback (false if
\* none was ever delivered) tells whether all controls of the set were pressed
\* at that pump; the delivered signals alternate pressed, released, pressed,
\* ..., starting with pressed, with wasPressed the negation of state, also
\* after partial releases and frames skipped by the focus gate.
C20_DeliveredTracksAllPressed ==
    [][op' = "pump" =>
        \A n \in DOMAIN actions :
            (IsButton(actions[n]) /\ actions[n].combo /\ Len(actions[n].buttons) > 0) =>
                LET was == IF delivered[n] = <<>> THEN 0 ELSE delivered[n][1]
                    now == IF delivered'[n] = <<>> THEN 0 ELSE delivered'[n][1]
                    all == Button_IsSetPressed(actions[n].buttons, backend)
                               = Len(actions[n].buttons)
                IN  /\ now = BoolToInt(all)
                    /\ \A i \in 1 .. Len(CallsOf(n, calls')) :
                          /\ CallsOf(n, calls')[i].state = 1 - was
                          /\ CallsOf(n, calls')[i].third = (CallsOf(n, calls')[i].state = 0)]_vars

\* C20 witness: a combo that had been dispatched as pressed lost one control,
\* and a pump run with whileUnfocused = true in the unfocused window delivered
\* released with the other control still down.
C20_Witness ==
    /\ op = "pump"
    /\ \E n \in DOMAIN actions :
          /\ IsButton(actions[n]) /\ actions[n].combo
          /\ before[n].last_state = 2
          /\ actions[n].last_state = 1
          /\ flag /\ ~backend.focused
          /\ delivered[n] = <<0>>

----------------------------------------------------------------------------
(* SpecInsertion: the registry of SpecRegistry, with the order in which    *)
(* the consumer inserted the actions                                       *)

\* the orders in which up to MaxActions of the names can be inserted
InsertionOrders ==
    {o \in UNION {[1 .. k -> {NameOrder[i] : i \in 1 .. Len(NameOrder)}] : k \in 1 .. MaxActions} :
        \A i \in 1 .. Len(o), j \in 1 .. Len(o) : (i # j) => (o[i] # o[j])}

\* actions[o[1]] = ..., actions[o[2]] = ..., in this order
InitInsertion ==
    /\ \E o \in InsertionOrders :
          /\ actions = [n \in {o[i] : i \in 1 .. Len(o)} |->
                           set_callback(Prototype(n, FALSE), "f")]
          /\ built = [n \in {o[i] : i \in 1 .. Len(o)} |->
                         [factory |-> "prototype",
                          inserted |-> CHOOSE i \in 1 .. Len(o) : o[i] = n]]
    /\ backend = BackendInit({})
    /\ InitGhosts

NextInsertion ==
    \/ ReadsKeys(actions) /\ KeyEvent
    \/ ReadsWheel(actions) /\ WheelNotchEvent
    \/ ReadsMouse(actions) /\ MouseMoveXEvent
    \/ PumpMessages(FALSE)

SpecInsertion == InitInsertion /\ [][NextInsertion]_vars

\* the place of a name in the order of std::less<std::string>
NameRank(n) == CHOOSE i \in 1 .. Len(NameOrder) : NameOrder[i] = n

\* C18 (as claimed): within one call of PumpMessages, an action inserted earlier
\* is pumped, and its callback fires, before one inserted later, whatever their
\* names.
C18_Original ==
    (op = "pump") =>
        /\ \A i \in 1 .. Len(pumped), j \in 1 .. Len(pumped) :
              (i < j) => (built[pumped[i]].inserted < built[pumped[j]].inserted)
        /\ \A i \in 1 .. Len(calls), j \in 1 .. Len(calls) :
              (i < j) => (built[calls[i].name].inserted < built[calls[j].name].inserted)

\* C18 (amended): within one call of PumpMessages, the actions are pumped, and
\* their callbacks fire, in ascending order of their names, whatever the order
\* in which they were inserted.
C18_PumpedInNameOrder ==
    (op = "pump") =>
        /\ \A i \in 1 .. Len(pumped), j \in 1 .. Len(pumped) :
              (i < j) => (NameRank(pumped[i]) < NameRank(pumped[j]))
        /\ \A i \in 1 .. Len(calls), j \in 1 .. Len(calls) :
              (i < j) => (NameRank(calls[i].name) < NameRank(calls[j].name))

\* C18 witness: "zoom" was inserted before "jump", both dispatched in one call,
\* and the callback of "jump" fired first.
C18_Witness ==
    /\ op = "pump"
    /\ DOMAIN actions = {"jump", "zoom"}
    /\ built["zoom"].inserted < built["jump"].inserted
    /\ Len(calls) = 2
    /\ calls[1].name = "jump"
    /\ calls[2].name = "zoom"

====
